---- MODULE Spec2Model ----
(***************************************************************************)
(* A model of the DNS server of veedlaw-codecrafters-dns-server-python.    *)
(*                                                                         *)
(* The repository holds two generations of the message classes:            *)
(*   app/dnsmessage.py          the module main.py imports (DNSheader,     *)
(*                              DNSquestion, DNSanswer, DNSmessage);       *)
(*                              modelled by the dnsmessage_* definitions   *)
(*   app/dns_message/*.py       the package with the buffer-walking        *)
(*                              decoders; modelled by DNSheader_*,         *)
(*                              DNSquestion_*                              *)
(*   app/dns_utils.py           parse_dns_labels                           *)
(*   app/main.py                the serve loop                             *)
(*                                                                         *)
(* Python values: bytes are sequences of 0..255, str is a sequence of      *)
(* code points, a call that may raise returns [exc, val] with exc = "None" *)
(* when it returned.                                                       *)
(***************************************************************************)
EXTENDS Integers, Sequences, FiniteSets, TLC

VARIABLES
    \* ---- header codec session (SpecHeader)
    himpl,      \* which module's DNSheader is exercised
    h0,         \* the DNSheader object / the client's request header
    hpc,        \* position in the session
    hwire,      \* bytes: result of pack, or the received request bytes
    hres,       \* result of from_message: [exc, val]
    hresp,      \* result of packing the decoded header: [exc, val]
    \* ---- name / question decoding session (SpecName)
    nfn,        \* the decoder that is run
    nin,        \* the input: raw bytes and a start offset, or labels to encode
    nbuf,       \* buf: the bytes the decoder walks
    nst,        \* the decoder's loop state: pc, buf_ptr, labels, exc
    \* ---- message codec session (SpecMessage)
    mreq,       \* what the client asked: its header and the names of its questions
    mpc,        \* position in the session
    mbuf,       \* the request datagram
    mmsg,       \* result of DNSmessage.from_message(mbuf): [exc, val]
    mout,       \* result of msg.pack(): [exc, val]
    \* ---- the server (Spec)
    resolver,   \* args.resolver: "None" or the upstream address
    upstream,   \* the upstream resolver: "answers" or "silent"
    spc,        \* where main() is: "recvfrom", "handle", "stopped"
    sreq,       \* what the client of the current datagram asked
    dgram,      \* buf: the datagram recvfrom returned
    source,     \* its sender
    handled,    \* datagrams whose loop iteration has ended
    sent,       \* every datagram the process has sent: [to, data]
    \* ---- answer record decoding session (SpecAnswer)
    ain,        \* the input: a record as its sender wrote it, or raw bytes
    abuf,       \* message: the bytes DNSanswer.from_message walks
    ast,        \* the loop state of DNSanswer.from_message: pc, buf_ptr, labels, exc
    ares,       \* result of DNSanswer.from_message: [exc, val]
    aout        \* result of packing the decoded record: [exc, val]

headerVars == <<himpl, h0, hpc, hwire, hres, hresp>>
nameVars == <<nfn, nin, nbuf, nst>>
msgVars == <<mreq, mpc, mbuf, mmsg, mout>>
srvVars == <<resolver, upstream, spc, sreq, dgram, source, handled, sent>>
answerVars == <<ain, abuf, ast, ares, aout>>
vars == <<headerVars, nameVars, msgVars, srvVars, answerVars>>
notHeaderVars == <<nameVars, msgVars, srvVars, answerVars>>
notNameVars == <<headerVars, msgVars, srvVars, answerVars>>
notMsgVars == <<headerVars, nameVars, srvVars, answerVars>>
notSrvVars == <<headerVars, nameVars, msgVars, answerVars>>
notAnswerVars == <<headerVars, nameVars, msgVars, srvVars>>

-----------------------------------------------------------------------------
(* Python integer and bytes primitives *)

RECURSIVE BitAnd(_, _)
BitAnd(a, b) ==
    IF a = 0 \/ b = 0 THEN 0
    ELSE (a % 2) * (b % 2) + 2 * BitAnd(a \div 2, b \div 2)

RECURSIVE BitOr(_, _)
BitOr(a, b) ==
    IF a = 0 THEN b
    ELSE IF b = 0 THEN a
    ELSE (IF a % 2 = 1 \/ b % 2 = 1 THEN 1 ELSE 0) + 2 * BitOr(a \div 2, b \div 2)

RECURSIVE BitXor(_, _)
BitXor(a, b) ==
    IF a = 0 THEN b
    ELSE IF b = 0 THEN a
    ELSE (((a % 2) + (b % 2)) % 2) + 2 * BitXor(a \div 2, b \div 2)

RECURSIVE Shl(_, _)
Shl(a, n) == IF n = 0 THEN a ELSE Shl(2 * a, n - 1)

RECURSIVE Shr(_, _)
Shr(a, n) == IF n = 0 THEN a ELSE Shr(a \div 2, n - 1)

\* buf[a:b] of Python: the slice is cut at the end of the buffer, never raises
Slice(buf, a, b) ==
    LET hi == IF b < Len(buf) THEN b ELSE Len(buf)
    IN IF a >= hi THEN <<>> ELSE [i \in 1..(hi - a) |-> buf[a + i]]

\* buf[i] of Python for i >= 0: defined only inside the buffer (else IndexError)
InRange(buf, i) == i >= 0 /\ i < Len(buf)
At(buf, i) == buf[i + 1]

\* int.from_bytes(b, 'big')
RECURSIVE IntFromBytes(_)
IntFromBytes(b) ==
    IF Len(b) = 0 THEN 0
    ELSE 256 * IntFromBytes(SubSeq(b, 1, Len(b) - 1)) + b[Len(b)]

\* struct.pack('!H', v), struct.pack('!I', v), struct.pack('!B', v) for values in range
PackH(v) == <<v \div 256, v % 256>>
PackI(v) == <<(v \div 16777216) % 256, (v \div 65536) % 256, (v \div 256) % 256, v % 256>>
PackB(v) == <<v>>
FitsB(v) == v >= 0 /\ v <= 255
FitsH(v) == v >= 0 /\ v <= 65535
FitsI(v) == v >= 0 /\ (v \div 65536) <= 65535

Raise(e) == [exc |-> e, val |-> <<>>]
Return(v) == [exc |-> "None", val |-> v]

-----------------------------------------------------------------------------
(* str.encode() / bytes.decode(): UTF-8, strict *)

Utf8Len(b, i) ==
    LET c == b[i]
    IN IF c < 128 THEN 1
       ELSE IF c >= 194 /\ c <= 223 THEN 2
       ELSE IF c >= 224 /\ c <= 239 THEN 3
       ELSE IF c >= 240 /\ c <= 244 THEN 4
       ELSE 0

Utf8Cont(b, j) == j <= Len(b) /\ b[j] >= 128 /\ b[j] <= 191

Utf8Ok(b, i) ==
    LET c == b[i]
        n == Utf8Len(b, i)
    IN \/ n = 1
       \/ n = 2 /\ Utf8Cont(b, i + 1)
       \/ /\ n = 3
          /\ Utf8Cont(b, i + 1) /\ Utf8Cont(b, i + 2)
          /\ (c = 224 => b[i + 1] >= 160)
          /\ (c = 237 => b[i + 1] <= 159)
       \/ /\ n = 4
          /\ Utf8Cont(b, i + 1) /\ Utf8Cont(b, i + 2) /\ Utf8Cont(b, i + 3)
          /\ (c = 240 => b[i + 1] >= 144)
          /\ (c = 244 => b[i + 1] <= 143)

Utf8CodePoint(b, i) ==
    LET c == b[i]
        n == Utf8Len(b, i)
    IN IF n = 1 THEN c
       ELSE IF n = 2 THEN (c - 192) * 64 + (b[i + 1] - 128)
       ELSE IF n = 3 THEN (c - 224) * 4096 + (b[i + 1] - 128) * 64 + (b[i + 2] - 128)
       ELSE (c - 240) * 262144 + (b[i + 1] - 128) * 4096
            + (b[i + 2] - 128) * 64 + (b[i + 3] - 128)

\* bytes.decode() from index i on: [exc, val] with val the str
RECURSIVE DecodeFrom(_, _)
DecodeFrom(b, i) ==
    IF i > Len(b) THEN Return(<<>>)
    ELSE IF ~Utf8Ok(b, i) THEN Raise("UnicodeDecodeError")
    ELSE LET rest == DecodeFrom(b, i + Utf8Len(b, i))
         IN IF rest.exc # "None" THEN rest
            ELSE Return(<<Utf8CodePoint(b, i)>> \o rest.val)

\* b.decode(): a byte below 128 is the code point itself, so an all-ASCII b is
\* decoded without walking it
BytesDecode(b) ==
    IF \A i \in 1..Len(b) : b[i] < 128 THEN Return(b) ELSE DecodeFrom(b, 1)

EncodeChar(cp) ==
    IF cp < 128 THEN <<cp>>
    ELSE IF cp < 2048 THEN <<192 + (cp \div 64), 128 + (cp % 64)>>
    ELSE IF cp < 65536 THEN <<224 + (cp \div 4096), 128 + ((cp \div 64) % 64), 128 + (cp % 64)>>
    ELSE <<240 + (cp \div 262144), 128 + ((cp \div 4096) % 64),
           128 + ((cp \div 64) % 64), 128 + (cp % 64)>>

RECURSIVE EncodeFrom(_)
EncodeFrom(s) ==
    IF Len(s) = 0 THEN <<>> ELSE EncodeChar(s[1]) \o EncodeFrom(Tail(s))

\* s.encode(): an all-ASCII s is its own encoding
StrEncode(s) ==
    IF \A i \in 1..Len(s) : s[i] < 128 THEN s ELSE EncodeFrom(s)

-----------------------------------------------------------------------------
(* DNSheader: the dataclass of both modules has the same thirteen fields *)

DNSheader(id, qr, op, aa, tc, rd, ra, z, rc, qd, an, ns, ar) ==
    [packet_identifier |-> id, query_indicator |-> qr, opcode |-> op,
     authoritative_answer |-> aa, truncation |-> tc, recursion_desired |-> rd,
     recursion_available |-> ra, z_reserved |-> z, response_code |-> rc,
     question_count |-> qd, answer_count |-> an, auth_rec_count |-> ns,
     additional_rec_count |-> ar]

DNS_HEADER_SIZE == 12

\* the seven values of format '!HccHHHH' in a buffer of 12 bytes
HeaderStructFields(b) ==
    [packet_identifier |-> IntFromBytes(SubSeq(b, 1, 2)),
     byte3 |-> b[3], byte4 |-> b[4],
     q_count |-> IntFromBytes(SubSeq(b, 5, 6)),
     an_count |-> IntFromBytes(SubSeq(b, 7, 8)),
     ns_count |-> IntFromBytes(SubSeq(b, 9, 10)),
     ar_count |-> IntFromBytes(SubSeq(b, 11, 12))]

\* an unpack that reads the bytes a short buffer lacks as zero
HeaderStructUnpackZeroFilled(b) ==
    Return(HeaderStructFields(SubSeq(b \o [i \in 1..DNS_HEADER_SIZE |-> 0],
                                     1, DNS_HEADER_SIZE)))

\* DNS_HEADER_STRUCT.unpack(message[:12]): struct.error ("unpack requires a
\* buffer of 12 bytes") for any other length
HeaderStructUnpack(b) ==
    IF Len(b) # DNS_HEADER_SIZE THEN Raise("struct.error")
    ELSE Return(HeaderStructFields(b))

\* DNS_HEADER_STRUCT.pack(id, byte3, byte4, qd, an, ns, ar): struct.error when a
\* count does not fit 16 bits
HeaderStructPack(id, byte3, byte4, qd, an, ns, ar) ==
    IF FitsH(id) /\ FitsH(qd) /\ FitsH(an) /\ FitsH(ns) /\ FitsH(ar)
    THEN Return(PackH(id) \o <<byte3, byte4>> \o PackH(qd) \o PackH(an)
                \o PackH(ns) \o PackH(ar))
    ELSE Raise("struct.error")

(* app/dns_message/dns_header.py *)

DNSheader_from_message(message) ==
    LET unpacked == HeaderStructUnpack(Slice(message, 0, DNS_HEADER_SIZE))
    IN IF unpacked.exc # "None" THEN unpacked
       ELSE
       LET u == unpacked.val
           byte3 == u.byte3
           query_indicator == Shr(BitAnd(128, byte3), 7)
           opcode == Shr(BitAnd(120, byte3), 3)
           authoritative_answer == Shr(BitAnd(4, byte3), 2)
           truncation == Shr(BitAnd(2, byte3), 1)
           recursion_desired == BitAnd(1, byte3)
           byte4 == u.byte4
           recursion_avail == Shr(BitAnd(128, byte4), 7)
           z_reserved == Shr(BitAnd(112, byte4), 4)
           response_code == IF opcode = 0 THEN 0 ELSE 4
           an_count == u.q_count
       IN Return(DNSheader(u.packet_identifier, 1, opcode, authoritative_answer,
                           truncation, recursion_desired, recursion_avail,
                           z_reserved, response_code, u.q_count, an_count,
                           u.ns_count, u.ar_count))

DNSheader_pack(self) ==
    LET b3 == BitOr(BitOr(BitOr(BitOr(BitOr(0, Shl(self.query_indicator, 7)),
                                      Shl(self.opcode, 3)),
                                Shl(self.authoritative_answer, 2)),
                          Shl(self.truncation, 1)),
                    self.recursion_desired)
        b4 == BitOr(BitOr(BitOr(0, Shl(self.recursion_available, 7)),
                          Shl(self.z_reserved, 4)),
                    self.response_code)
    IN IF ~FitsB(b3) \/ ~FitsB(b4) THEN Raise("OverflowError")
       ELSE HeaderStructPack(self.packet_identifier, b3, b4, self.question_count,
                             self.answer_count, self.auth_rec_count,
                             self.additional_rec_count)

(* app/dnsmessage.py *)

dnsmessage_DNSheader_from_message(message) ==
    LET unpacked == HeaderStructUnpack(Slice(message, 0, DNS_HEADER_SIZE))
    IN IF unpacked.exc # "None" THEN unpacked
       ELSE
       LET u == unpacked.val
           byte3 == u.byte3
           query_indicator == BitAnd(128, byte3)
           opcode == BitAnd(120, byte3)
           authoritative_answer == BitAnd(4, byte3)
           truncation == BitAnd(2, byte3)
           recursion_desired == BitAnd(1, byte3)
           byte4 == u.byte4
           recursion_avail == BitAnd(128, byte4)
           z_reserved == BitAnd(112, byte4)
           response_code == BitAnd(15, byte4)
       IN Return(DNSheader(u.packet_identifier, query_indicator, opcode,
                           authoritative_answer, truncation, recursion_desired,
                           recursion_avail, z_reserved, response_code, u.q_count,
                           1, u.ns_count, u.ar_count))

\* every assignment to c_flags_and_codes_byte3 / byte4 overwrites the one before
\* it: only the last of each survives
dnsmessage_DNSheader_pack(self) ==
    LET b3 == BitOr(128, self.recursion_desired)
        b4 == BitOr(240, self.response_code)
    IN IF ~FitsB(b3) \/ ~FitsB(b4) THEN Raise("OverflowError")
       ELSE HeaderStructPack(self.packet_identifier, b3, b4, self.question_count,
                             self.answer_count, self.auth_rec_count,
                             self.additional_rec_count)

-----------------------------------------------------------------------------
(* Name decoding: app/dns_utils.py and app/dns_message/dns_question.py *)

PACKET_COMPRESSION_SIGNAL_BYTE == 192

\* the locals of a decoder's label loop between two iterations
LoopState(pc, buf_ptr, labels, exc) ==
    [pc |-> pc, buf_ptr |-> buf_ptr, labels |-> labels, exc |-> exc]

\* int.from_bytes(buf[buf_ptr: buf_ptr+2]) ^ 0xC000
JumpAddr(buf, buf_ptr) ==
    BitXor(IntFromBytes(Slice(buf, buf_ptr, buf_ptr + 2)), 49152)

IsPointer(strlen) ==
    BitAnd(strlen, PACKET_COMPRESSION_SIGNAL_BYTE) = PACKET_COMPRESSION_SIGNAL_BYTE

\* buf_ptr += strlen + 1 with the length byte forgotten
SkipLabelNoLengthByte(buf_ptr, strlen) == buf_ptr + strlen

\* a label branch that leaves the cursor where it was
SkipLabelStay(buf_ptr, strlen) == buf_ptr

\* buf_ptr += strlen + 1: move past the length byte and the string
SkipLabel(buf_ptr, strlen) == buf_ptr + strlen + 1

\* one iteration of the while True loop of parse_dns_labels
parse_dns_labels_iter(buf, st) ==
    LET buf_ptr == st.buf_ptr
        labels == st.labels
    IN IF ~InRange(buf, buf_ptr) THEN LoopState("raise", buf_ptr, labels, "IndexError")
       ELSE
       LET strlen == At(buf, buf_ptr)
       IN IF strlen = 0 THEN LoopState("return", buf_ptr + 1, labels, "None")
          ELSE IF IsPointer(strlen)
          THEN LET jump_addr == JumpAddr(buf, buf_ptr)
               IN IF ~InRange(buf, jump_addr)
                  THEN LoopState("raise", buf_ptr + 2, labels, "IndexError")
                  ELSE LET strlen2 == At(buf, jump_addr)
                           start_ptr == jump_addr + 1
                           string == BytesDecode(Slice(buf, start_ptr, start_ptr + strlen2))
                       IN IF string.exc # "None"
                          THEN LoopState("raise", buf_ptr + 2, labels, string.exc)
                          ELSE LoopState("loop", buf_ptr + 2, Append(labels, string.val), "None")
          ELSE LET start_ptr == buf_ptr + 1
                   string == BytesDecode(Slice(buf, start_ptr, start_ptr + strlen))
               IN IF string.exc # "None"
                  THEN LoopState("raise", SkipLabel(buf_ptr, strlen), labels, string.exc)
                  ELSE LoopState("loop", SkipLabel(buf_ptr, strlen),
                                 Append(labels, string.val), "None")

RECURSIVE parse_dns_labels_run(_, _)
parse_dns_labels_run(buf, st) ==
    IF st.pc # "loop" THEN st ELSE parse_dns_labels_run(buf, parse_dns_labels_iter(buf, st))

\* parse_dns_labels(buf, buf_ptr) -> (labels, buf_ptr)
parse_dns_labels(buf, buf_ptr) ==
    LET st == parse_dns_labels_run(buf, LoopState("loop", buf_ptr, <<>>, "None"))
    IN IF st.pc = "return" THEN Return(<<st.labels, st.buf_ptr>>) ELSE Raise(st.exc)

DNSquestion(name, record_type, clazz) ==
    [name |-> name, record_type |-> record_type, clazz |-> clazz]

RecordType_A == 1
RecordClass_IN == 1

\* one iteration of the while loop of DNSquestion.from_message; the iteration
\* that breaks also runs the tail of the function (buf_ptr += 2, twice) and
\* returns. The loop condition compares an int with the str '\x00': it is true
\* whenever buf[buf_ptr] exists.
DNSquestion_from_message_iter(buf, st) ==
    LET buf_ptr == st.buf_ptr
        labels == st.labels
    IN IF ~InRange(buf, buf_ptr) THEN LoopState("raise", buf_ptr, labels, "IndexError")
       ELSE
       LET strlen == At(buf, buf_ptr)
           ptr == IsPointer(strlen)
           jump_addr == JumpAddr(buf, buf_ptr)
       IN IF ptr /\ ~InRange(buf, jump_addr)
          THEN LoopState("raise", buf_ptr, labels, "IndexError")
          ELSE
          LET string == IF ptr
                        THEN BytesDecode(Slice(buf, jump_addr + 1,
                                               jump_addr + 1 + At(buf, jump_addr)))
                        ELSE BytesDecode(Slice(buf, buf_ptr + 1, buf_ptr + 1 + strlen))
              next_ptr == buf_ptr + (IF ptr THEN 1 ELSE strlen) + 1
          IN IF string.exc # "None" THEN LoopState("raise", buf_ptr, labels, string.exc)
             ELSE IF ~InRange(buf, next_ptr)
             THEN LoopState("raise", next_ptr, Append(labels, string.val), "IndexError")
             ELSE IF At(buf, next_ptr) = 0
             THEN LoopState("return", next_ptr + 1 + 2 + 2, Append(labels, string.val), "None")
             ELSE LoopState("loop", next_ptr, Append(labels, string.val), "None")

RECURSIVE DNSquestion_from_message_run(_, _)
DNSquestion_from_message_run(buf, st) ==
    IF st.pc # "loop" THEN st
    ELSE DNSquestion_from_message_run(buf, DNSquestion_from_message_iter(buf, st))

\* DNSquestion.from_message(buf, buf_ptr) -> (DNSquestion, buf_ptr)
DNSquestion_from_message(buf, buf_ptr) ==
    LET st == DNSquestion_from_message_run(buf, LoopState("loop", buf_ptr, <<>>, "None"))
    IN IF st.pc = "return"
       THEN Return(<<DNSquestion(st.labels, RecordType_A, RecordClass_IN), st.buf_ptr>>)
       ELSE Raise(st.exc)

\* the name loop of DNSquestion.pack / DNSanswer.pack: struct.pack('!B', len(label))
\* + label.encode() per label, then b'\x00'. len(label) counts characters.
RECURSIVE pack_name(_)
pack_name(name) ==
    IF Len(name) = 0 THEN Return(<<0>>)
    ELSE IF ~FitsB(Len(name[1])) THEN Raise("struct.error")
    ELSE LET rest == pack_name(Tail(name))
         IN IF rest.exc # "None" THEN rest
            ELSE Return(PackB(Len(name[1])) \o StrEncode(name[1]) \o rest.val)

\* DNSquestion.pack()
DNSquestion_pack(self) ==
    LET name == pack_name(self.name)
    IN IF name.exc # "None" THEN name
       ELSE IF ~FitsH(self.record_type) \/ ~FitsH(self.clazz) THEN Raise("struct.error")
       ELSE Return(name.val \o PackH(self.record_type) \o PackH(self.clazz))

-----------------------------------------------------------------------------
(* app/dnsmessage.py: DNSquestion, DNSanswer, DNSmessage *)

CODECRAFTERS == <<99, 111, 100, 101, 99, 114, 97, 102, 116, 101, 114, 115>>
IO == <<105, 111>>

\* DNSquestion.from_message(message): "TODO", the message is not read
dnsmessage_DNSquestion_from_message(message) ==
    Return(DNSquestion(<<CODECRAFTERS, IO>>, 1, 1))

dnsmessage_DNSquestion_pack(self) ==
    LET name == pack_name(self.name)
    IN IF name.exc # "None" THEN name
       ELSE IF ~FitsH(self.record_type) \/ ~FitsH(self.clazz) THEN Raise("struct.error")
       ELSE Return(name.val \o PackH(self.record_type) \o PackH(self.clazz))

DNSanswer(name, record_type, clazz, ttl, rdlength, rdata) ==
    [name |-> name, record_type |-> record_type, clazz |-> clazz, ttl |-> ttl,
     rdlength |-> rdlength, rdata |-> rdata]

\* the str '8.8.8.8'
RDATA_8_8_8_8 == <<56, 46, 56, 46, 56, 46, 56>>

\* DNSanswer.from_message(message): "TODO HARDCODED", the message is not read
dnsmessage_DNSanswer_from_message(message) ==
    LET name == <<CODECRAFTERS, IO>>
        record_type == RecordType_A
        clazz == RecordClass_IN
        ttl == 60
        rdata == RDATA_8_8_8_8
    IN Return(DNSanswer(name, record_type, clazz, ttl, Len(rdata) - 3, rdata))

\* s.split('.') of a str
RECURSIVE SplitDots(_, _)
SplitDots(s, part) ==
    IF Len(s) = 0 THEN <<part>>
    ELSE IF s[1] = 46 THEN <<part>> \o SplitDots(Tail(s), <<>>)
    ELSE SplitDots(Tail(s), Append(part, s[1]))

\* int(s) of a str of decimal digits
RECURSIVE IntOfDigits(_)
IntOfDigits(s) ==
    IF Len(s) = 0 THEN 0
    ELSE 10 * IntOfDigits(SubSeq(s, 1, Len(s) - 1)) + (s[Len(s)] - 48)

\* DNSanswer.pack(): rdata_encoded is built from the literal '8.8.8.8', not
\* from self.rdata
dnsmessage_DNSanswer_pack(self) ==
    LET name == pack_name(self.name)
        parts == SplitDots(RDATA_8_8_8_8, <<>>)
        rdata_encoded == [i \in 1..Len(parts) |-> IntOfDigits(parts[i])]
    IN IF name.exc # "None" THEN name
       ELSE IF ~FitsH(self.record_type) \/ ~FitsH(self.clazz) \/ ~FitsI(self.ttl)
               \/ ~FitsH(self.rdlength)
       THEN Raise("struct.error")
       ELSE Return(name.val \o PackH(self.record_type) \o PackH(self.clazz)
                   \o PackI(self.ttl) \o PackH(self.rdlength) \o rdata_encoded)

DNSmessage(header, question, answer) ==
    [header |-> header, question |-> question, answer |-> answer]

\* DNSmessage.from_message(message)
dnsmessage_DNSmessage_from_message(message) ==
    LET header == dnsmessage_DNSheader_from_message(message)
        question == dnsmessage_DNSquestion_from_message(message)
        answer == dnsmessage_DNSanswer_from_message(message)
    IN IF header.exc # "None" THEN header
       ELSE Return(DNSmessage(header.val, question.val, answer.val))

\* the three locals of DNSmessage.pack(): header_bytes, question_bytes,
\* answer_bytes, each [exc, val]
dnsmessage_DNSmessage_pack_parts(self) ==
    [header_bytes |-> dnsmessage_DNSheader_pack(self.header),
     question_bytes |-> dnsmessage_DNSquestion_pack(self.question),
     answer_bytes |-> dnsmessage_DNSanswer_pack(self.answer)]

\* DNSmessage.pack()
dnsmessage_DNSmessage_pack(self) ==
    LET parts == dnsmessage_DNSmessage_pack_parts(self)
    IN IF parts.header_bytes.exc # "None" THEN parts.header_bytes
       ELSE IF parts.question_bytes.exc # "None" THEN parts.question_bytes
       ELSE IF parts.answer_bytes.exc # "None" THEN parts.answer_bytes
       ELSE Return(parts.header_bytes.val \o parts.question_bytes.val
                   \o parts.answer_bytes.val)

-----------------------------------------------------------------------------
(* app/dns_message/dns_answer.py *)

\* the Python value held in DNSanswer.rdata: bytes (from_message) or str
Bytes(v) == [type |-> "bytes", val |-> v]
Str(v) == [type |-> "str", val |-> v]

\* one iteration of the while loop of DNSanswer.from_message. As in
\* DNSquestion.from_message the loop condition is true whenever buf[buf_ptr]
\* exists.
DNSanswer_from_message_iter(buf, st) ==
    LET buf_ptr == st.buf_ptr
        labels == st.labels
    IN IF ~InRange(buf, buf_ptr) THEN LoopState("raise", buf_ptr, labels, "IndexError")
       ELSE
       LET strlen == At(buf, buf_ptr)
           ptr == IsPointer(strlen)
           jump_addr == JumpAddr(buf, buf_ptr)
       IN IF ptr /\ ~InRange(buf, jump_addr)
          THEN LoopState("raise", buf_ptr, labels, "IndexError")
          ELSE
          LET string == IF ptr
                        THEN BytesDecode(Slice(buf, jump_addr + 1,
                                               jump_addr + 1 + At(buf, jump_addr)))
                        ELSE BytesDecode(Slice(buf, buf_ptr + 1, buf_ptr + 1 + strlen))
              next_ptr == buf_ptr + (IF ptr THEN 1 ELSE strlen) + 1
          IN IF string.exc # "None" THEN LoopState("raise", buf_ptr, labels, string.exc)
             ELSE IF ~InRange(buf, next_ptr)
             THEN LoopState("raise", next_ptr, Append(labels, string.val), "IndexError")
             ELSE IF At(buf, next_ptr) = 0
             THEN LoopState("return", next_ptr + 1, Append(labels, string.val), "None")
             ELSE LoopState("loop", next_ptr, Append(labels, string.val), "None")

\* the part of DNSanswer.from_message after the loop ("HARDCODED"): st is the
\* loop state at the break
DNSanswer_from_message_tail(buf, st) ==
    LET name == st.labels
        record_type == RecordType_A
        clazz == RecordClass_IN
        ttl == 60
        rdlength == Len(<<8, 8, 8, 8>>)
        buf_ptr == st.buf_ptr + 2 + 2 + 4 + 2
        rdata == Slice(buf, buf_ptr, buf_ptr + rdlength)
    IN DNSanswer(name, record_type, clazz, ttl, rdlength, Bytes(rdata))

RECURSIVE DNSanswer_from_message_run(_, _)
DNSanswer_from_message_run(buf, st) ==
    IF st.pc # "loop" THEN st
    ELSE DNSanswer_from_message_run(buf, DNSanswer_from_message_iter(buf, st))

\* DNSanswer.from_message(message, buf_ptr) -> DNSanswer
DNSanswer_from_message(message, buf_ptr) ==
    LET st == DNSanswer_from_message_run(message, LoopState("loop", buf_ptr, <<>>, "None"))
    IN IF st.pc = "return" THEN Return(DNSanswer_from_message_tail(message, st))
       ELSE Raise(st.exc)

\* for ip_part in self.rdata: struct.pack('!B', int(ip_part)). Iterating bytes
\* gives ints; iterating a str gives characters, and int() of a character that
\* is not a digit raises ValueError
RECURSIVE rdata_encoded(_, _)
rdata_encoded(type, val) ==
    IF Len(val) = 0 THEN Return(<<>>)
    ELSE IF type = "str" /\ ~(val[1] >= 48 /\ val[1] <= 57) THEN Raise("ValueError")
    ELSE LET rest == rdata_encoded(type, Tail(val))
         IN IF rest.exc # "None" THEN rest
            ELSE Return(PackB(IF type = "str" THEN val[1] - 48 ELSE val[1]) \o rest.val)

\* DNSanswer.pack()
DNSanswer_pack(self) ==
    LET name == pack_name(self.name)
        encoded == rdata_encoded(self.rdata.type, self.rdata.val)
    IN IF name.exc # "None" THEN name
       ELSE IF encoded.exc # "None" THEN encoded
       ELSE IF ~FitsH(self.record_type) \/ ~FitsH(self.clazz) \/ ~FitsI(self.ttl)
               \/ ~FitsH(self.rdlength)
       THEN Raise("struct.error")
       ELSE Return(name.val \o PackH(self.record_type) \o PackH(self.clazz)
                   \o PackI(self.ttl) \o PackH(self.rdlength) \o encoded.val)

-----------------------------------------------------------------------------
(* The header codec session: a DNSheader object is packed and read back, or a
   client's request header arrives on the wire, is read and packed again as the
   response header. *)

\* RFC 1035 4.1.1 layout of the client's header h, as the client sends it
WireHeader(h) ==
    PackH(h.packet_identifier)
    \o <<h.query_indicator * 128 + h.opcode * 8 + h.authoritative_answer * 4
         + h.truncation * 2 + h.recursion_desired,
         h.recursion_available * 128 + h.z_reserved * 16 + h.response_code>>
    \o PackH(h.question_count) \o PackH(h.answer_count)
    \o PackH(h.auth_rec_count) \o PackH(h.additional_rec_count)

Ids == {0, 1234, 65535}
Bits == {0, 1}
Opcodes == {0, 1, 2, 15}
ZValues == {0, 5}
Rcodes == {0, 3, 4, 15}
Counts == {0, 1, 2}
HeaderCuts == 0..12

Headers ==
    {DNSheader(id, qr, op, 0, tc, rd, ra, z, rc, qd, an, 0, 0) :
        id \in Ids, qr \in Bits, op \in Opcodes, tc \in Bits, rd \in Bits,
        ra \in Bits, z \in ZValues, rc \in Rcodes, qd \in Counts, an \in Counts}

NoResult == Raise("not run")

\* the sessions a specification does not run stay as they are
HeaderIdle ==
    /\ himpl = "none" /\ h0 = <<>> /\ hpc = "idle" /\ hwire = <<>>
    /\ hres = NoResult /\ hresp = NoResult
NameIdle ==
    /\ nfn = "none" /\ nin = <<>> /\ nbuf = <<>>
    /\ nst = LoopState("none", 0, <<>>, "None")
MsgIdle ==
    /\ mreq = <<>> /\ mpc = "idle" /\ mbuf = <<>>
    /\ mmsg = NoResult /\ mout = NoResult
SrvIdle ==
    /\ resolver = "None" /\ upstream = "silent" /\ spc = "idle" /\ sreq = <<>>
    /\ dgram = <<>> /\ source = "none" /\ handled = 0 /\ sent = <<>>
AnswerIdle ==
    /\ ain = <<>> /\ abuf = <<>> /\ ast = LoopState("none", 0, <<>>, "None")
    /\ ares = NoResult /\ aout = NoResult

HeaderInit ==
    /\ himpl \in {"dns_header", "dnsmessage"}
    /\ h0 \in Headers
    /\ hpc = "start"
    /\ hwire = <<>>
    /\ hres = NoResult
    /\ hresp = NoResult
    /\ NameIdle /\ MsgIdle /\ SrvIdle /\ AnswerIdle

\* the object h0 is packed (start), or the decoded request header is packed as
\* the response header (decoded)
PackStep(packed_h0, packed_hres) ==
    \/ /\ hpc = "start"
       /\ hwire' = packed_h0.val
       /\ hpc' = IF packed_h0.exc = "None" THEN "packed" ELSE "pack raised"
       /\ UNCHANGED <<hres, hresp>>
    \/ /\ hpc = "decoded"
       /\ hresp' = packed_hres
       /\ hpc' = "response"
       /\ UNCHANGED <<hwire, hres>>

FromMessageStep(parsed) ==
    /\ hpc \in {"packed", "request"}
    /\ hres' = parsed
    /\ hpc' = IF hpc = "packed" THEN "roundtrip"
              ELSE IF parsed.exc = "None" THEN "decoded" ELSE "dropped"
    /\ UNCHANGED <<hwire, hresp>>

HeaderPack ==
    /\ himpl = "dns_header"
    /\ PackStep(DNSheader_pack(h0), DNSheader_pack(hres.val))
    /\ UNCHANGED <<himpl, h0, notHeaderVars>>

HeaderFromMessage ==
    /\ himpl = "dns_header"
    /\ FromMessageStep(DNSheader_from_message(hwire))
    /\ UNCHANGED <<himpl, h0, notHeaderVars>>

LegacyHeaderPack ==
    /\ himpl = "dnsmessage"
    /\ PackStep(dnsmessage_DNSheader_pack(h0), dnsmessage_DNSheader_pack(hres.val))
    /\ UNCHANGED <<himpl, h0, notHeaderVars>>

LegacyHeaderFromMessage ==
    /\ himpl = "dnsmessage"
    /\ FromMessageStep(dnsmessage_DNSheader_from_message(hwire))
    /\ UNCHANGED <<himpl, h0, notHeaderVars>>

\* the header of a client's query (QR = 0, RCODE = 0, no answers) arrives,
\* possibly cut short
HeaderReceive ==
    /\ hpc = "start"
    /\ h0.query_indicator = 0 /\ h0.response_code = 0 /\ h0.answer_count = 0
    /\ \E n \in HeaderCuts : hwire' = SubSeq(WireHeader(h0), 1, n)
    /\ hpc' = "request"
    /\ UNCHANGED <<himpl, h0, hres, hresp, notHeaderVars>>

HeaderNext ==
    \/ HeaderPack
    \/ HeaderFromMessage
    \/ LegacyHeaderPack
    \/ LegacyHeaderFromMessage
    \/ HeaderReceive

SpecHeader == HeaderInit /\ [][HeaderNext]_vars

-----------------------------------------------------------------------------
(* The name decoding session: bytes arrive (raw), or a label list is encoded
   by the name loop of pack / by DNSquestion.pack; then one of the two decoders
   walks the buffer from the start offset, one loop iteration per step. *)

MaxBufLen == 4
MaxLabels == 2

RawBytes == {0, 1, 2, 97, 192}
RawBufs == UNION {[1..n -> RawBytes] : n \in 0..MaxBufLen}

\* the two-question message of test_from_message_compressed_packet_parsing:
\* abc.longassdomainname.com at 12, def + pointer to 16 at 43
CompressedPacket ==
    <<134, 45, 1, 0, 0, 2, 0, 0, 0, 0, 0, 0,
      3, 97, 98, 99,
      17, 108, 111, 110, 103, 97, 115, 115, 100, 111, 109, 97, 105, 110, 110, 97, 109, 101,
      3, 99, 111, 109, 0, 0, 1, 0, 1,
      3, 100, 101, 102, 192, 16, 0, 1, 0, 1>>

\* <12 zero bytes> 03 'abc' 00 C0 0C
PointerOnlyPacket ==
    <<0, 0, 0, 0, 0, 0, 0, 0, 0, 0, 0, 0, 3, 97, 98, 99, 0, 192, 12>>

\* com at 12; abc + pointer to 12 at 17; def + pointer to 17 at 27 (a chain)
ChainedPacket ==
    <<0, 0, 0, 0, 0, 0, 0, 0, 0, 0, 0, 0,
      3, 99, 111, 109, 0,
      3, 97, 98, 99, 192, 12, 0, 1, 0, 1,
      3, 100, 101, 102, 192, 17, 0, 1, 0, 1>>

\* a question for abc with type 28 (AAAA) and class 3 at offset 12
TypedQuestionPacket ==
    <<0, 0, 0, 0, 0, 0, 0, 0, 0, 0, 0, 0, 3, 97, 98, 99, 0, 0, 28, 0, 3>>

\* a question for the root name, type 2 (NS), class 1 at offset 12
RootQuestionPacket ==
    <<0, 0, 0, 0, 0, 0, 0, 0, 0, 0, 0, 0, 0, 0, 2, 0, 1>>

Label(n, c) == [i \in 1..n |-> c]
LabelLens == {1, 2, 63}
Labels == {Label(n, c) : n \in LabelLens, c \in {97, 48}} \cup {<<233>>}
LabelSeqs == UNION {[1..n -> Labels] : n \in 0..MaxLabels}

\* a name whose encoding has the largest size RFC 1035 allows: 64 * 3 + 62 + 1 = 255
LongName == <<Label(63, 97), Label(63, 48), Label(63, 97), Label(61, 48)>>

NameInput(kind, raw, start, labels) ==
    [kind |-> kind, raw |-> raw, start |-> start, labels |-> labels]

NameInputs ==
    {NameInput("raw", b, s, <<>>) : b \in RawBufs, s \in 0..MaxBufLen}
    \cup {NameInput("raw", CompressedPacket, s, <<>>) : s \in {12, 43}}
    \cup {NameInput("raw", PointerOnlyPacket, s, <<>>) : s \in {12, 17}}
    \cup {NameInput("raw", ChainedPacket, s, <<>>) : s \in {17, 27}}
    \cup {NameInput("raw", TypedQuestionPacket, 12, <<>>),
          NameInput("raw", RootQuestionPacket, 12, <<>>)}
    \cup {NameInput(k, <<>>, 0, L) : k \in {"name", "question"},
                                      L \in LabelSeqs \cup {LongName}}

NameInit ==
    /\ nfn \in {"parse_dns_labels", "DNSquestion.from_message"}
    /\ nin \in NameInputs
    /\ nbuf = <<>>
    /\ nst = LoopState("idle", 0, <<>>, "None")
    /\ HeaderIdle /\ MsgIdle /\ SrvIdle /\ AnswerIdle

\* recvfrom hands the decoder a buffer and the caller a start offset
NameReceive ==
    /\ nst.pc = "idle" /\ nin.kind = "raw"
    /\ nbuf' = nin.raw
    /\ nst' = LoopState("loop", nin.start, <<>>, "None")
    /\ UNCHANGED <<nfn, nin, notNameVars>>

\* the name loop of pack encodes the labels
NameEncode ==
    /\ nst.pc = "idle" /\ nin.kind = "name"
    /\ nbuf' = pack_name(nin.labels).val
    /\ nst' = LoopState(IF pack_name(nin.labels).exc = "None" THEN "loop" ELSE "pack raised",
                        0, <<>>, "None")
    /\ UNCHANGED <<nfn, nin, notNameVars>>

\* DNSquestion(labels, A, IN).pack()
QuestionPack ==
    /\ nst.pc = "idle" /\ nin.kind = "question"
    /\ LET packed == DNSquestion_pack(DNSquestion(nin.labels, RecordType_A, RecordClass_IN))
       IN /\ nbuf' = packed.val
          /\ nst' = LoopState(IF packed.exc = "None" THEN "loop" ELSE "pack raised",
                              0, <<>>, "None")
    /\ UNCHANGED <<nfn, nin, notNameVars>>

ParseLabelsIter ==
    /\ nfn = "parse_dns_labels" /\ nst.pc = "loop"
    /\ nst' = parse_dns_labels_iter(nbuf, nst)
    /\ UNCHANGED <<nfn, nin, nbuf, notNameVars>>

QuestionIter ==
    /\ nfn = "DNSquestion.from_message" /\ nst.pc = "loop"
    /\ nst' = DNSquestion_from_message_iter(nbuf, nst)
    /\ UNCHANGED <<nfn, nin, nbuf, notNameVars>>

NameNext ==
    \/ NameReceive
    \/ NameEncode
    \/ QuestionPack
    \/ ParseLabelsIter
    \/ QuestionIter

SpecName == NameInit /\ [][NameNext]_vars

-----------------------------------------------------------------------------
(* The clients: well-formed queries as RFC 1035 4.1 writes them *)

MaxQuestions == 2

WWW == <<119, 119, 119>>
EXAMPLE == <<101, 120, 97, 109, 112, 108, 101>>
COM == <<99, 111, 109>>
ABC == <<97, 98, 99>>
Names == {<<WWW, EXAMPLE, COM>>, <<CODECRAFTERS, IO>>, <<ABC>>}
NameSeqs == UNION {[1..n -> Names] : n \in 0..MaxQuestions}

\* a query: QR = 0, RCODE = 0, no answers, as many questions as the header says
Requests ==
    {[header |-> DNSheader(id, 0, op, 0, 0, rd, 0, 0, 0, Len(ns), 0, 0, 0), names |-> ns] :
        id \in Ids, op \in Opcodes, rd \in Bits, ns \in NameSeqs}

NoRequest == [header |-> <<>>, names |-> <<>>]

RECURSIVE WireName(_)
WireName(L) ==
    IF Len(L) = 0 THEN <<0>> ELSE <<Len(L[1])>> \o L[1] \o WireName(Tail(L))

WireQuestion(name) == WireName(name) \o PackH(1) \o PackH(1)

RECURSIVE WireQuestions(_)
WireQuestions(names) ==
    IF Len(names) = 0 THEN <<>>
    ELSE WireQuestion(names[1]) \o WireQuestions(Tail(names))

WireQuery(req) == WireHeader(req.header) \o WireQuestions(req.names)

\* an A/IN record with TTL 60 for name, rdata the four octets of address
WireAnswer(name, address) ==
    WireName(name) \o PackH(1) \o PackH(1) \o PackI(60) \o PackH(4) \o address

-----------------------------------------------------------------------------
(* The message codec session: DNSmessage.from_message(buf).pack() of
   app/dnsmessage.py on a client's query *)

MsgInit ==
    /\ mreq \in Requests
    /\ mpc = "start"
    /\ mbuf = <<>>
    /\ mmsg = NoResult
    /\ mout = NoResult
    /\ HeaderIdle /\ NameIdle /\ SrvIdle /\ AnswerIdle

MsgReceive ==
    /\ mpc = "start"
    /\ mbuf' = WireQuery(mreq)
    /\ mpc' = "received"
    /\ UNCHANGED <<mreq, mmsg, mout, notMsgVars>>

MsgFromMessage ==
    /\ mpc = "received"
    /\ mmsg' = dnsmessage_DNSmessage_from_message(mbuf)
    /\ mpc' = IF dnsmessage_DNSmessage_from_message(mbuf).exc = "None"
              THEN "decoded" ELSE "raised"
    /\ UNCHANGED <<mreq, mbuf, mout, notMsgVars>>

MsgPack ==
    /\ mpc = "decoded"
    /\ mout' = dnsmessage_DNSmessage_pack(mmsg.val)
    /\ mpc' = "packed"
    /\ UNCHANGED <<mreq, mbuf, mmsg, notMsgVars>>

MsgNext ==
    \/ MsgReceive
    \/ MsgFromMessage
    \/ MsgPack

SpecMessage == MsgInit /\ [][MsgNext]_vars

-----------------------------------------------------------------------------
(* app/main.py: the serve loop *)

MaxDatagrams == 2

RESOLVER == "127.0.0.1:5354"
CLIENT == "127.0.0.1:40000"

\* the number of parameters of DNSmessage.from_message after cls
from_message_parameters == 1

\* DNSmessage.from_message(buf, args.resolver): Python binds the arguments to
\* the parameters before the body runs and raises TypeError when there are too
\* many
main_from_message_call(args) ==
    IF Len(args) # from_message_parameters THEN Raise("TypeError")
    ELSE dnsmessage_DNSmessage_from_message(args[1])

\* the body of the try block: the response, or the exception that ends it
main_try(b, r) ==
    LET msg == main_from_message_call(<<b, r>>)
    IN IF msg.exc # "None" THEN msg
       ELSE dnsmessage_DNSmessage_pack(msg.val)

SrvInit ==
    /\ resolver \in {"None", RESOLVER}
    /\ upstream \in {"answers", "silent"}
    /\ spc = "recvfrom"
    /\ sreq = NoRequest
    /\ dgram = <<>>
    /\ source = "none"
    /\ handled = 0
    /\ sent = <<>>
    /\ HeaderIdle /\ NameIdle /\ MsgIdle /\ AnswerIdle

\* buf, source = udp_socket.recvfrom(512)
Recvfrom ==
    /\ spc = "recvfrom"
    /\ handled < MaxDatagrams
    /\ \E req \in Requests :
          /\ sreq' = req
          /\ dgram' = WireQuery(req)
    /\ source' = CLIENT
    /\ spc' = "handle"
    /\ UNCHANGED <<resolver, upstream, handled, sent, notSrvVars>>

\* msg = DNSmessage.from_message(buf, args.resolver); response = msg.pack();
\* udp_socket.sendto(response, source); except Exception: print, break
Handle ==
    /\ spc = "handle"
    /\ LET response == main_try(dgram, resolver)
       IN IF response.exc = "None"
          THEN /\ sent' = Append(sent, [to |-> source, data |-> response.val])
               /\ spc' = "recvfrom"
          ELSE /\ sent' = sent
               /\ spc' = "stopped"
    /\ handled' = handled + 1
    /\ UNCHANGED <<resolver, upstream, sreq, dgram, source, notSrvVars>>

Next ==
    \/ Recvfrom
    \/ Handle

Init == SrvInit

Spec == Init /\ [][Next]_vars

-----------------------------------------------------------------------------
(* The answer decoding session: a resource record as an upstream resolver
   writes it (RFC 1035 4.1.3), or raw bytes, is walked by
   DNSanswer.from_message one loop iteration per step; the decoded record is
   then packed *)

RecordTypes == {1, 28}
RecordClasses == {1, 3}
Ttls == {60, 300}
Rdatas == {<<8, 8, 8, 8>>, <<10, 0, 0, 1>>, <<1, 2, 3, 4, 5, 6>>}
RecordCuts == {0, 2}
RecordStarts == {0, 12}

\* the record on the wire: name, type, class, ttl, rdlength, rdata
WireRecord(a) ==
    WireName(a.name) \o PackH(a.record_type) \o PackH(a.clazz) \o PackI(a.ttl)
    \o PackH(Len(a.rdata)) \o a.rdata

AnswerInputs ==
    {[kind |-> "record", name |-> n, record_type |-> t, clazz |-> c, ttl |-> l,
      rdata |-> d, cut |-> k, start |-> p, raw |-> <<>>] :
        n \in {<<ABC>>, <<WWW, EXAMPLE, COM>>}, t \in RecordTypes, c \in RecordClasses,
        l \in Ttls, d \in Rdatas, k \in RecordCuts, p \in RecordStarts}
    \cup {[kind |-> "raw", name |-> <<>>, record_type |-> 0, clazz |-> 0, ttl |-> 0,
           rdata |-> <<>>, cut |-> 0, start |-> p, raw |-> b] :
             b \in RawBufs, p \in 0..MaxBufLen}

\* the message that holds the input: the record after start bytes of header,
\* its last cut bytes missing
AnswerMessage(a) ==
    IF a.kind = "raw" THEN a.raw
    ELSE LET whole == [i \in 1..a.start |-> 0] \o WireRecord(a)
         IN SubSeq(whole, 1, Len(whole) - a.cut)

AnswerInit ==
    /\ ain \in AnswerInputs
    /\ abuf = <<>>
    /\ ast = LoopState("idle", 0, <<>>, "None")
    /\ ares = NoResult
    /\ aout = NoResult
    /\ HeaderIdle /\ NameIdle /\ MsgIdle /\ SrvIdle

AnswerReceive ==
    /\ ast.pc = "idle"
    /\ abuf' = AnswerMessage(ain)
    /\ ast' = LoopState("loop", ain.start, <<>>, "None")
    /\ UNCHANGED <<ain, ares, aout, notAnswerVars>>

\* one iteration of the loop; the iteration that breaks also runs the rest of
\* from_message and returns the record
AnswerIter ==
    /\ ast.pc = "loop"
    /\ LET st == DNSanswer_from_message_iter(abuf, ast)
       IN /\ ast' = st
          /\ ares' = IF st.pc = "return" THEN Return(DNSanswer_from_message_tail(abuf, st))
                     ELSE IF st.pc = "raise" THEN Raise(st.exc)
                     ELSE ares
    /\ UNCHANGED <<ain, abuf, aout, notAnswerVars>>

AnswerPack ==
    /\ ast.pc = "return"
    /\ aout' = DNSanswer_pack(ares.val)
    /\ ast' = [ast EXCEPT !.pc = "packed"]
    /\ UNCHANGED <<ain, abuf, ares, notAnswerVars>>

AnswerNext ==
    \/ AnswerReceive
    \/ AnswerIter
    \/ AnswerPack

SpecAnswer == AnswerInit /\ [][AnswerNext]_vars

-----------------------------------------------------------------------------
(* The three label loops together: a run decodes one input with
   parse_dns_labels, DNSquestion.from_message or DNSanswer.from_message. Every
   step of a decoder is one iteration of its loop. *)

DecodersInit == NameInit \/ AnswerInit

DecodersNext == NameNext \/ AnswerNext

SpecDecoders == DecodersInit /\ [][DecodersNext]_vars

-----------------------------------------------------------------------------
(* What the claims are stated against *)

\* RFC 1035 4.1.4 as section 4.1 of the specification reads it: the labels of
\* the name at p, every compression pointer followed to its target, with a
\* ceiling of hops pointers; status "cycle" when the ceiling is hit
RECURSIVE RefLabels(_, _, _)
RefLabels(buf, p, hops) ==
    IF ~InRange(buf, p) THEN [status |-> "truncated", labels |-> <<>>]
    ELSE LET c == At(buf, p)
         IN IF c = 0 THEN [status |-> "ok", labels |-> <<>>]
            ELSE IF c >= 192
            THEN IF ~InRange(buf, p + 1) THEN [status |-> "truncated", labels |-> <<>>]
                 ELSE IF hops = 0 THEN [status |-> "cycle", labels |-> <<>>]
                 ELSE RefLabels(buf, (c - 192) * 256 + At(buf, p + 1), hops - 1)
            ELSE IF c > 63 THEN [status |-> "malformed", labels |-> <<>>]
            ELSE IF p + 1 + c > Len(buf) THEN [status |-> "truncated", labels |-> <<>>]
            ELSE IF \E i \in 1..c : At(buf, p + i) >= 128
            THEN [status |-> "malformed", labels |-> <<>>]
            ELSE LET rest == RefLabels(buf, p + 1 + c, hops)
                 IN IF rest.status # "ok" THEN rest
                    ELSE [status |-> "ok",
                          labels |-> <<Slice(buf, p + 1, p + 1 + c)>> \o rest.labels]

RefName(buf, p) == RefLabels(buf, p, Len(buf))

\* the offset of the compression pointer that ends the name written at p, or -1
\* when the name ends in a zero byte (or runs off the buffer)
RECURSIVE RefPointerAt(_, _)
RefPointerAt(buf, p) ==
    IF ~InRange(buf, p) THEN -1
    ELSE LET c == At(buf, p)
         IN IF c = 0 THEN -1
            ELSE IF c >= 192 THEN p
            ELSE RefPointerAt(buf, p + 1 + c)

\* the fields of a packed header as RFC 1035 4.1.1 lays them out
WireId(w) == w[1] * 256 + w[2]
WireQR(w) == w[3] \div 128
WireOpcode(w) == (w[3] \div 8) % 16
WireRD(w) == w[3] % 2
WireRcode(w) == w[4] % 16
WireQdCount(w) == w[5] * 256 + w[6]
WireAnCount(w) == w[7] * 256 + w[8]

\* the question and answer records DNSmessage.pack() writes after the header
SerializedQuestions(self) == <<dnsmessage_DNSmessage_pack_parts(self).question_bytes.val>>
SerializedAnswers(self) == <<dnsmessage_DNSmessage_pack_parts(self).answer_bytes.val>>

\* C1: the question count and answer count written into the header of an encoded
\* message equal the number of question and answer records serialized after it
C1_CountsMatchSerialized ==
    (mpc = "packed" /\ mout.exc = "None")
        => /\ mout.val = SubSeq(mout.val, 1, 12) \o SerializedQuestions(mmsg.val)[1]
                         \o SerializedAnswers(mmsg.val)[1]
           /\ WireQdCount(mout.val) = Len(SerializedQuestions(mmsg.val))
           /\ WireAnCount(mout.val) = Len(SerializedAnswers(mmsg.val))

RECURSIVE StubAnswers(_)
StubAnswers(names) ==
    IF Len(names) = 0 THEN <<>>
    ELSE WireAnswer(names[1], <<8, 8, 8, 8>>) \o StubAnswers(Tail(names))

\* C2: without a resolver, the response to a request with N questions carries
\* exactly N answers, the i-th with the i-th question's name, type A, class IN,
\* TTL 60 and rdata 08 08 08 08, and has QR = 1
C2_StubAnswerPerQuestion ==
    (mpc = "packed" /\ Len(mreq.names) >= 1)
        => /\ mout.exc = "None"
           /\ WireQR(mout.val) = 1
           /\ WireAnCount(mout.val) = Len(mreq.names)
           /\ dnsmessage_DNSmessage_pack_parts(mmsg.val).answer_bytes.val
                  = StubAnswers(mreq.names)

ToResolver(d) == resolver # "None" /\ d.to = resolver
ToSource(d) == d.to = source
UpstreamQueries == SelectSeq(sent, ToResolver)
ClientResponses == SelectSeq(sent, ToSource)

\* the answer section of a response to req: what follows the header and the
\* echoed questions
AnswerSection(data, req) ==
    Slice(data, 12 + Len(WireQuestions(req.names)), Len(data))

\* the address the upstream resolver holds for a name
UpstreamAddress(name) == <<10, 0, Len(name), Len(name[1])>>

RECURSIVE UpstreamAnswers(_)
UpstreamAnswers(names) ==
    IF Len(names) = 0 THEN <<>>
    ELSE WireAnswer(names[1], UpstreamAddress(names[1])) \o UpstreamAnswers(Tail(names))

\* the current datagram, with at least one question, went through the loop body
\* of a server started with --resolver
Forwarded == handled = 1 /\ resolver # "None" /\ Len(sreq.names) >= 1

\* C3: with a resolver, a request with N questions causes exactly N upstream
\* queries of one question each, the i-th for the i-th question, and the i-th
\* answer of the response is the answer obtained for the i-th question
C3_OneUpstreamQueryPerQuestion ==
    Forwarded
        => /\ Len(UpstreamQueries) = Len(sreq.names)
           /\ \A i \in 1..Len(UpstreamQueries) :
                 /\ WireQdCount(UpstreamQueries[i].data) = 1
                 /\ Slice(UpstreamQueries[i].data, 12, Len(UpstreamQueries[i].data))
                        = WireQuestion(sreq.names[i])
           /\ upstream = "answers"
                 => /\ Len(ClientResponses) = 1
                    /\ AnswerSection(ClientResponses[1].data, sreq)
                           = UpstreamAnswers(sreq.names)

\* C4: when the upstream round trips fail, the response still carries one
\* fallback answer (the question's name, rdata 8.8.8.8) per question, and the
\* error does not leave the datagram handler
C4_FallbackWhenUpstreamFails ==
    (Forwarded /\ upstream = "silent")
        => /\ spc # "stopped"
           /\ Len(ClientResponses) = 1
           /\ AnswerSection(ClientResponses[1].data, sreq) = StubAnswers(sreq.names)

NameDone == nst.pc \in {"return", "raise"}

\* the session decodes received bytes whose name at the start offset is well
\* formed and ends in a compression pointer
CompressedName ==
    /\ nin.kind = "raw"
    /\ RefPointerAt(nin.raw, nin.start) >= 0
    /\ RefName(nin.raw, nin.start).status = "ok"

\* C6: when name decoding meets a compression pointer, the decoded name is the
\* labels read so far followed by every label of the name at the pointer's
\* target, further pointers followed (def + pointer gives
\* def.longassdomainname.com); stated for the names of two labels or more
C6_PointerExpandsWholeSuffix ==
    (nst.pc = "return" /\ CompressedName
     /\ Len(RefName(nin.raw, nin.start).labels) >= 2)
        => nst.labels = RefName(nin.raw, nin.start).labels

\* C7: for a name that ends in a compression pointer at offset q, name decoding
\* returns q + 2 as the next offset and question decoding returns q + 6; stated
\* for the names that the type and class fields follow in the buffer
C7_CursorAfterPointer ==
    (nst.pc = "return" /\ CompressedName
     /\ RefPointerAt(nin.raw, nin.start) + 6 <= Len(nin.raw))
        => nst.buf_ptr = RefPointerAt(nin.raw, nin.start)
                         + (IF nfn = "parse_dns_labels" THEN 2 ELSE 6)

\* C8: decoding a name whose compression pointers form a cycle fails with an
\* error; it never returns a label list
C8_PointerCycleFails ==
    (NameDone /\ nin.kind = "raw" /\ RefName(nin.raw, nin.start).status = "cycle")
        => nst.pc = "raise"

\* a label list of the data model: every label 1 to 63 ASCII bytes, the encoding
\* at most 255 bytes
RECURSIVE EncodedLen(_)
EncodedLen(L) == IF Len(L) = 0 THEN 1 ELSE 1 + Len(L[1]) + EncodedLen(Tail(L))

ValidLabels(L) ==
    /\ \A k \in 1..Len(L) :
          /\ Len(L[k]) >= 1 /\ Len(L[k]) <= 63
          /\ \A i \in 1..Len(L[k]) : L[k][i] < 128
    /\ EncodedLen(L) <= 255

\* C10: for every valid label sequence L, decoding the encoding of L at offset 0
\* returns exactly L and the length of the encoding as the next offset
C10_NameRoundTrip ==
    (NameDone /\ nfn = "parse_dns_labels" /\ nin.kind \in {"name", "question"}
     /\ ValidLabels(nin.labels))
        => /\ nst.pc = "return"
           /\ nst.labels = nin.labels
           /\ nst.buf_ptr = EncodedLen(nin.labels)
           /\ nin.kind = "name" => nst.buf_ptr = Len(nbuf)

\* C10 witness: a two-label name with a 63-byte label came back from the decoder
C10_Witness ==
    /\ nfn = "parse_dns_labels" /\ nin.kind = "name" /\ nst.pc = "return"
    /\ Len(nin.labels) = 2 /\ Len(nin.labels[1]) = 63 /\ Len(nin.labels[2]) = 1
    /\ ValidLabels(nin.labels)
    /\ nst.labels = nin.labels

\* C5: the response header has QR = 1, response code 0 for opcode 0 and 4 for
\* every other opcode, and the request's packet identifier, opcode and RD bit
C5_ResponseHeader ==
    hpc = "response"
        => /\ hresp.exc = "None"
           /\ WireQR(hresp.val) = 1
           /\ WireRcode(hresp.val) = (IF h0.opcode = 0 THEN 0 ELSE 4)
           /\ WireId(hresp.val) = h0.packet_identifier
           /\ WireOpcode(hresp.val) = h0.opcode
           /\ WireRD(hresp.val) = h0.recursion_desired

\* C9: for every header h within its bit widths, from_message(h.pack()) equals h
\* in every field
C9_HeaderRoundTrip ==
    hpc = "roundtrip" => hres = Return(h0)

\* C11: pack returns exactly 12 bytes whose third byte holds, from the most
\* significant bit, QR, OPCODE (4 bits), AA, TC, RD: bits 6..3 are the opcode
C11_PackLayout ==
    hpc = "packed"
        => /\ Len(hwire) = 12
           /\ hwire[3] = h0.query_indicator * 128 + h0.opcode * 8
                         + h0.authoritative_answer * 4 + h0.truncation * 2
                         + h0.recursion_desired

\* C12: header decoding of an input shorter than 12 bytes fails with an error
\* and returns no header
C12_ShortHeaderFails ==
    (hpc \in {"decoded", "dropped", "roundtrip"} /\ Len(hwire) < 12)
        => /\ hpc = "dropped"
           /\ hres = Raise("struct.error")

\* C12 witness: the 11 bytes of test_invalid_input were refused
C12_Witness ==
    /\ himpl = "dnsmessage" /\ hpc = "dropped"
    /\ Len(hwire) = 11 /\ hres.exc = "struct.error"

\* C13: a datagram whose handling raises an error is fatal for that datagram
\* only: the serve loop does not stop, the server goes on to the next recvfrom
C13_ServeLoopSurvivesErrors ==
    handled >= 1 => spc # "stopped"

\* the offset just past the zero byte that ends the uncompressed name at p
RECURSIVE RefNameEnd(_, _)
RefNameEnd(buf, p) ==
    IF ~InRange(buf, p) THEN p
    ELSE IF At(buf, p) = 0 THEN p + 1
    ELSE RefNameEnd(buf, p + 1 + At(buf, p))

\* the session decodes received bytes that hold, at the start offset, a well
\* formed name without compression followed by the type and class fields
UncompressedQuestion ==
    /\ nin.kind = "raw"
    /\ RefName(nin.raw, nin.start).status = "ok"
    /\ RefPointerAt(nin.raw, nin.start) = -1
    /\ RefNameEnd(nin.raw, nin.start) + 4 <= Len(nin.raw)

\* C14: for a well-formed uncompressed question at offset p,
\* DNSquestion.from_message returns the labels in wire order with no empty
\* label, the type and class that follow the name on the wire, and the offset
\* just past the class field
C14_QuestionFieldsFromWire ==
    (NameDone /\ nfn = "DNSquestion.from_message" /\ UncompressedQuestion)
        => LET p1 == RefNameEnd(nin.raw, nin.start)
               res == DNSquestion_from_message(nbuf, nin.start)
           IN /\ nst.pc = "return"
              /\ res.exc = "None"
              /\ res.val[1].name = nst.labels /\ res.val[2] = nst.buf_ptr
              /\ res.val[1].name = RefName(nin.raw, nin.start).labels
              /\ \A i \in 1..Len(res.val[1].name) : Len(res.val[1].name[i]) >= 1
              /\ res.val[1].record_type = IntFromBytes(Slice(nin.raw, p1, p1 + 2))
              /\ res.val[1].clazz = IntFromBytes(Slice(nin.raw, p1 + 2, p1 + 4))
              /\ res.val[2] = p1 + 4

\* C15: decoding never succeeds when a label, a pointer target or the type and
\* class fields reach past the end of the buffer: a decoder that returns has
\* read a name that lies inside the buffer and returns a next offset inside it
C15_TruncatedNeverSucceeds ==
    (nst.pc = "return" /\ nin.kind = "raw")
        => /\ nst.buf_ptr <= Len(nbuf)
           /\ RefName(nin.raw, nin.start).status # "truncated"

\* the rdlength field and the rdata bytes of a packed record whose name is L
PackedRdlength(w, L) == IntFromBytes(Slice(w, EncodedLen(L) + 8, EncodedLen(L) + 10))
PackedRdata(w, L) == Slice(w, EncodedLen(L) + 10, Len(w))

\* C16: decoding an answer record returns the type, class, TTL and rdata length
\* as encoded on the wire and an rdata of exactly rdata-length bytes; for every
\* decoded record, and every record packed from it, rdlength equals the number
\* of rdata bytes
C16_AnswerFieldsFromWire ==
    (ast.pc \in {"return", "packed"} /\ ain.kind = "record")
        => /\ ares = DNSanswer_from_message(abuf, ain.start)
           /\ ares.val.rdlength = Len(ares.val.rdata.val)
           /\ ain.cut = 0
                 => /\ ares.val.name = ain.name
                    /\ ares.val.record_type = ain.record_type
                    /\ ares.val.clazz = ain.clazz
                    /\ ares.val.ttl = ain.ttl
                    /\ ares.val.rdlength = Len(ain.rdata)
                    /\ ares.val.rdata.val = ain.rdata
           /\ (ast.pc = "packed" /\ aout.exc = "None")
                 => PackedRdlength(aout.val, ares.val.name)
                        = Len(PackedRdata(aout.val, ares.val.name))

\* the decoder of the run that is in progress, its buffer, start offset and
\* loop state
AnswerRun == nfn = "none"
RunBuf == IF AnswerRun THEN abuf ELSE nbuf
RunStart == IF AnswerRun THEN ain.start ELSE IF nin.kind = "raw" THEN nin.start ELSE 0
RunState == IF AnswerRun THEN ast ELSE nst

\* an iteration that neither returns nor raises moved the cursor forward and
\* appended one label (one hop at a pointer: the label at its target)
LoopAdvances(st, st2) ==
    (st.pc = "loop" /\ st2 # st)
        => /\ st2.pc \in {"loop", "return", "raise"}
           /\ st2.pc \in {"loop", "return"} => st2.buf_ptr > st.buf_ptr
           /\ st2.pc = "loop" => Len(st2.labels) = Len(st.labels) + 1
           /\ Len(st2.labels) <= Len(st.labels) + 1

\* what the iteration that is about to run leaves in the loop state
NextIteration ==
    IF AnswerRun THEN DNSanswer_from_message_iter(abuf, ast)
    ELSE IF nfn = "parse_dns_labels" THEN parse_dns_labels_iter(nbuf, nst)
    ELSE DNSquestion_from_message_iter(nbuf, nst)

\* C17: name decoding terminates for every buffer and start offset: each
\* iteration of a label loop strictly increases the cursor (one hop at a
\* pointer), the iterations that go on are at most len(buffer), and a loop that
\* has not returned or raised always has its next iteration to run, so it ends
\* by returning or raising, also on self-referencing pointers
C17_DecodingTerminates ==
    /\ [][IF AnswerRun THEN LoopAdvances(ast, ast') ELSE LoopAdvances(nst, nst')]_vars
    /\ [](RunState.pc = "loop" => /\ Len(RunState.labels) <= Len(RunBuf)
                                  /\ RunState.buf_ptr >= RunStart + Len(RunState.labels))
    /\ [](RunState.pc = "loop" => NextIteration # RunState)

\* C17 witness: parse_dns_labels came back from a pointer that points to itself
C17_Witness ==
    /\ nfn = "parse_dns_labels" /\ nin.kind = "raw"
    /\ nbuf = <<192, 0, 0>> /\ nin.start = 0
    /\ nst.pc = "return" /\ Len(nst.labels) = 1

====
